---- MODULE Spec2Model ----
(***************************************************************************)
(* A model of the scan-and-deduplicate engine of ssdedupe (src/src/scan.rs *)
(* and its caller src/src/main.rs).                                        *)
(*                                                                         *)
(* Two specifications share this module:                                   *)
(*   Spec     the concurrent scanner: Entry::scan over a file system, its  *)
(*            ScanState (cancel flag, counters, error log) and cancel();   *)
(*   DupSpec  the duplicate pipeline of main.rs: the checkboxes of the     *)
(*            drives and the block they ask for (Entry::dir over the       *)
(*            enabled drives, unfiltered_duplicates, redundant_bytes,      *)
(*            filter_duplicates_by_prefix, the sorted Vec of duplicates),  *)
(*            and the same functions on their own, over bounded inputs.    *)
(*                                                                         *)
(* A path (PathBuf) is the sequence of its components; every component is  *)
(* a file name as DirEntry::file_name yields it (one normal component).    *)
(* The key of a child in the tree is the lossy conversion of its name to   *)
(* UTF-8, which two names can share.                                       *)
(***************************************************************************)
EXTENDS Integers, Sequences, FiniteSets, TLC

\* ------------------------------------------------------------------ bounds

\* Number of distinct file contents the trees of DupSpec are built from.
NumContents == 2

\* Largest number of paths in a group of an arbitrary duplicate mapping.
MaxGroup == 2

\* Capacity of the BufReader of Entry::scan in bytes: one fill_buf yields at
\* most this many (8 KiB in the standard library).
BufCapacity == 2

\* ----------------------------------------------------------------- hashing

\* A fingerprint (u64 in the code) is modelled by the transcript of the calls
\* made on the hasher that produced it, a sequence of numbers: two
\* fingerprints are equal exactly when the same calls were made with the same
\* arguments in the same order, as aHash tells apart every pair of inputs it
\* was run on.

\* The leading 16 bits of the marker 0xBEEE38829F9F8197 of EntryInfo::dir.
DirMarker == 48878

\* FIXED_RANDOM_STATE.build_hasher(): the seeds are fixed (0, 0, 0, 0), so every
\* hasher starts in the same state.
build_hasher == <<>>

\* Hasher::write(&[u8]): each call is absorbed apart from the others, with the
\* length of its slice.
write(h, buf) == h \o <<Len(buf)>> \o buf

\* Hasher::write_u64: a call of its own, of one number.
write_u64(h, x) == h \o <<x>>

\* Hasher::write_length_prefix, which the Hash of a Vec calls first.
write_length_prefix(h, len) == h \o <<len>>

RECURSIVE to_bytes(_)
\* The bytes of a slice of fingerprints in memory: the elements one after the
\* other, each of a fingerprint's width (here its length, then its numbers).
to_bytes(xs) ==
    IF xs = <<>> THEN <<>> ELSE <<Len(Head(xs))>> \o Head(xs) \o to_bytes(Tail(xs))

\* Hash::hash_slice of u64: one write of the bytes of the whole slice.
hash_slice(h, xs) == write(h, to_bytes(xs))

\* Hasher::finish: the fingerprint of everything absorbed.
finish(h) == h

\* FIXED_RANDOM_STATE.hash_one((hashes, marker)): the Vec hashes its length,
\* then its elements; the marker follows.
hash_one(hashes, marker) ==
    finish(write_u64(hash_slice(write_length_prefix(build_hasher, Len(hashes)),
                                hashes),
                     marker))

RECURSIVE LexLess(_, _)
\* Lexicographic order on sequences of numbers of one length.
LexLess(x, y) ==
    /\ x # <<>>
    /\ \/ Head(x) < Head(y)
       \/ Head(x) = Head(y) /\ LexLess(Tail(x), Tail(y))

\* The order of u64 on fingerprints: a total order on the transcripts.
HashLess(x, y) ==
    \/ Len(x) < Len(y)
    \/ Len(x) = Len(y) /\ LexLess(x, y)

\* ------------------------------------------------------------- entry model

\* BTreeMap<CompactString, _> iterates its keys in byte-wise lexicographic
\* order; NameOrder lists every key of the model in that order. The key
\* "<U+FFFD>" is the replacement character, bytes EF BF BD, after all ASCII.
NameOrder ==
    <<"a", "b", "d1", "d2", "w", "w.txt", "x", "x.txt", "y", "y.txt", "z", "z.txt",
      "<U+FFFD>">>

Names == {NameOrder[i] : i \in DOMAIN NameOrder}

\* The keys of a map, in iteration order.
Keys(entries) == SelectSeq(NameOrder, LAMBDA n : n \in DOMAIN entries)

\* entries.values(): the values of a map in key order.
Values(entries) == [i \in DOMAIN Keys(entries) |-> entries[Keys(entries)[i]]]

\* The empty BTreeMap.
EmptyMap == [n \in {} |-> 0]

EntryInfo(bytes, kind, hash) == [bytes |-> bytes, kind |-> kind, hash |-> hash]

\* Option::None for an Entry.
NoEntry == [tag |-> "None"]

\* Entry::File(info).
FileEntry(info) == [tag |-> "File", info |-> info]

\* Entry::info.
info(entry) == entry.info

\* Entry::dirs.
dirs(entry) == IF entry.tag = "File" THEN 0 ELSE entry.dirs

\* Entry::files.
files(entry) == IF entry.tag = "File" THEN 1 ELSE entry.files

RECURSIVE SumSeq(_)
\* Iterator::sum over a sequence of numbers.
SumSeq(s) == IF s = <<>> THEN 0 ELSE Head(s) + SumSeq(Tail(s))

\* A mutant of SortedHashes: the hashes are left in the order supplied.
UnsortedHashes(hashes) == hashes

\* hashes.sort(): ascending order of the fingerprints.
SortedHashes(hashes) == SortSeq(hashes, LAMBDA x, y : HashLess(x, y))

\* EntryInfo::dir over the children's infos, in the order supplied.
EntryInfo_dir(infos) ==
    LET hashes == [i \in DOMAIN infos |-> infos[i].hash]
    IN  EntryInfo(SumSeq([i \in DOMAIN infos |-> infos[i].bytes]),
                  "Dir",
                  hash_one(SortedHashes(hashes), DirMarker))

\* A mutant of DirCount: the directory itself is not counted.
DirCountNoSelf(entries) ==
    SumSeq([i \in DOMAIN Values(entries) |-> dirs(Values(entries)[i])])

\* The dirs field Entry::dir computes.
DirCount(entries) ==
    1 + SumSeq([i \in DOMAIN Values(entries) |-> dirs(Values(entries)[i])])

\* Entry::dir.
Entry_dir(entries) ==
    [tag     |-> "Dir",
     info    |-> EntryInfo_dir([i \in DOMAIN Values(entries) |-> info(Values(entries)[i])]),
     dirs    |-> DirCount(entries),
     files   |-> SumSeq([i \in DOMAIN Values(entries) |-> files(Values(entries)[i])]),
     entries |-> entries]

\* --------------------------------------------------------------- pipeline

\* PathBuf::new().
EmptyPath == <<>>

\* PathBuf::push of one file name.
push(path, file_name) == Append(path, file_name)

\* The file names of the model that are not valid UTF-8: the single bytes FE
\* and FF.
NonUtf8Names == {"<FE>", "<FF>"}

\* OsStr::to_string_lossy: valid UTF-8 is kept; a byte that is not valid
\* UTF-8 becomes the replacement character U+FFFD.
to_string_lossy(name) == IF name \in NonUtf8Names THEN "<U+FFFD>" ELSE name

\* PathBuf::pop: drops the last component and reports whether there was one.
pop(path) ==
    IF path = <<>> THEN [popped |-> FALSE, path |-> path]
    ELSE [popped |-> TRUE, path |-> SubSeq(path, 1, Len(path) - 1)]

\* Path::file_name().is_some().
file_name_is_some(path) == path # <<>>

RECURSIVE Flatten(_)
\* Iterator::flatten over a sequence of sequences.
Flatten(ss) == IF ss = <<>> THEN <<>> ELSE Head(ss) \o Flatten(Tail(ss))

\* A mutant of hashes_with_root: the children of a directory are listed but
\* not descended into.
hashes_shallow(entry, path) ==
    <<  <<info(entry), path>>  >> \o
    ( IF entry.tag = "File" THEN <<>>
      ELSE [i \in DOMAIN Keys(entry.entries) |->
              <<info(entry.entries[Keys(entry.entries)[i]]),
                push(path, Keys(entry.entries)[i])>>] )

RECURSIVE hashes_with_root(_, _)
\* Entry::hashes_with_root: the (info, path) pair of the node, then those of
\* its children in key order.
hashes_with_root(entry, path) ==
    <<  <<info(entry), path>>  >> \o
    ( IF entry.tag = "File" THEN <<>>
      ELSE Flatten([i \in DOMAIN Keys(entry.entries) |->
                      hashes_with_root(entry.entries[Keys(entry.entries)[i]],
                                       push(path, Keys(entry.entries)[i]))]) )

\* Entry::hashes.
hashes(entry) == hashes_with_root(entry, EmptyPath)

\* Itertools::into_grouping_map().collect::<BTreeSet<_>>(): the set of the
\* paths of every info.
GroupingMap(pairs) ==
    [i \in {pairs[k][1] : k \in DOMAIN pairs} |->
        {pairs[k][2] : k \in {j \in DOMAIN pairs : pairs[j][1] = i}}]

\* A mutant of IsDuplicateGroup: single paths are reported too.
IsAnyGroup(paths) == Cardinality(paths) > 0

\* The filter of Entry::unfiltered_duplicates.
IsDuplicateGroup(paths) == Cardinality(paths) > 1

\* Entry::unfiltered_duplicates.
unfiltered_duplicates(entry) ==
    LET grouped == GroupingMap(hashes(entry))
    IN  [i \in {k \in DOMAIN grouped : IsDuplicateGroup(grouped[k])} |-> grouped[i]]

\* A mutant of CountsToRedundant: groups of either kind are counted.
CountsAnyKind(i) == i.kind \in {"File", "Dir"}

\* The filter of Entry::redundant_bytes.
CountsToRedundant(i) == i.kind = "File"

\* A mutant of RedundantOf: every copy is counted, the one to keep included.
RedundantOfAllCopies(i, paths) == i.bytes * Cardinality(paths)

\* The map step of Entry::redundant_bytes (a group is not empty, so len - 1
\* does not wrap).
RedundantOf(i, paths) == i.bytes * (Cardinality(paths) - 1)

RECURSIVE SumRedundant(_, _)
\* Iterator::sum of the mapped groups ks of the mapping.
SumRedundant(duplicates, ks) ==
    IF ks = {} THEN 0
    ELSE LET k == CHOOSE x \in ks : TRUE
         IN  RedundantOf(k, duplicates[k]) + SumRedundant(duplicates, ks \ {k})

\* Entry::redundant_bytes.
redundant_bytes(duplicates) ==
    SumRedundant(duplicates, {i \in DOMAIN duplicates : CountsToRedundant(i)})

\* The map step of the loop of filter_duplicates_by_prefix: Some(parent) when
\* the path has a parent that still has a file name, else None (<<>> here: no
\* parent returned is empty).
ParentOf(path) ==
    LET p == pop(path)
    IN  IF p.popped /\ file_name_is_some(p.path) THEN p.path ELSE <<>>

\* A mutant of AnyAtRoot: the loop ends only when no path has a parent left.
AllAtRoot(paths) == \A path \in paths : ParentOf(path) = <<>>

\* Whether the collect() of the loop yields None: some path has no such parent.
AnyAtRoot(paths) == \E path \in paths : ParentOf(path) = <<>>

\* A mutant of PrefixExists: a prefix set that only overlaps counts.
PrefixOverlaps(prefixes, new_paths) ==
    \E s \in prefixes : new_paths \subseteq s

\* prefixes.contains(&new_paths).
PrefixExists(prefixes, new_paths) == new_paths \in prefixes

RECURSIVE RetainedSwapped(_, _)
\* A mutant of Retained: the two break values are swapped.
RetainedSwapped(prefixes, paths) ==
    IF AnyAtRoot(paths) THEN FALSE
    ELSE LET new_paths == {ParentOf(path) : path \in paths}
         IN  IF PrefixExists(prefixes, new_paths) THEN TRUE
             ELSE RetainedSwapped(prefixes, new_paths)

RECURSIVE Retained(_, _)
\* The closure of duplicates.retain: TRUE keeps the group.
Retained(prefixes, paths) ==
    IF AnyAtRoot(paths) THEN TRUE
    ELSE LET new_paths == {ParentOf(path) : path \in paths}
         IN  IF PrefixExists(prefixes, new_paths) THEN FALSE
             ELSE Retained(prefixes, new_paths)

RECURSIVE WorkingSets(_, _)
\* The loop of the closure, iteration by iteration: the value of its variable
\* paths at the start of each iteration, up to the one that breaks.
WorkingSets(prefixes, paths) ==
    IF AnyAtRoot(paths) THEN <<paths>>
    ELSE LET new_paths == {ParentOf(path) : path \in paths}
         IN  IF PrefixExists(prefixes, new_paths) THEN <<paths>>
             ELSE <<paths>> \o WorkingSets(prefixes, new_paths)

\* A mutant of KeptValue: the kept group is replaced by the prefix set found.
KeptParents(paths) == {ParentOf(path) : path \in paths}

\* The value retain leaves under a kept key.
KeptValue(paths) == paths

\* Entry::filter_duplicates_by_prefix.
filter_duplicates_by_prefix(duplicates) ==
    LET prefixes == {duplicates[i] : i \in DOMAIN duplicates}
    IN  [i \in {k \in DOMAIN duplicates : Retained(prefixes, duplicates[k])} |->
            KeptValue(duplicates[i])]

\* The element of duplicates made of a group: the bytes it wastes, its info
\* and its paths.
DuplicateOf(i, paths) ==
    [redundant_bytes |-> i.bytes * (Cardinality(paths) - 1), info |-> i,
     paths |-> paths]

\* The map of main.rs over the filtered mapping.
WithRedundantBytes(kept) == {DuplicateOf(i, kept[i]) : i \in DOMAIN kept}

\* The derived Ord of EntryKind: Dir is declared before File.
KindRank(kind) == IF kind = "Dir" THEN 0 ELSE 1

\* The sort key of main.rs and the order of its tuples.
KeyLess(d, e) ==
    \/ d.redundant_bytes < e.redundant_bytes
    \/ /\ d.redundant_bytes = e.redundant_bytes
       /\ \/ KindRank(d.info.kind) < KindRank(e.info.kind)
          \/ /\ d.info.kind = e.info.kind
             /\ Cardinality(d.paths) < Cardinality(e.paths)

RECURSIVE sort_unstable_by_key(_)
\* slice::sort_unstable_by_key on the Vec of the elements: every order of them
\* that ascends by key; elements of equal keys may come in any order.
sort_unstable_by_key(elements) ==
    IF elements = {} THEN {<<>>}
    ELSE UNION {{<<d>> \o rest : rest \in sort_unstable_by_key(elements \ {d})} :
                  d \in {e \in elements : \A f \in elements : ~KeyLess(f, e)}}

\* ---------------------------------------------------------------- state

VARIABLES
    fs,          \* Spec: the file system under the scanned path (never changes)
    call,        \* Spec: per path, the call of Entry::scan on it: position and locals
    state,       \* Spec: the ScanState shared by the calls
    drive,       \* DupSpec: the entry tree of the drive d1 (DriveState::Done), or NoEntry
    other_drive, \* DupSpec: the entry tree of the drive d2, or NoEntry (no such drive)
    enabled,     \* DupSpec: the names of the drives whose checkbox is set
    root,        \* DupSpec: the entry handed to unfiltered_duplicates, or NoEntry
    unfiltered,  \* DupSpec: unfiltered_duplicates of main.rs
    redundant,   \* DupSpec: redundant_bytes of main.rs
    filtered,    \* DupSpec: the mapping filter_duplicates_by_prefix returned
    main_duplicates, \* DupSpec: duplicates of main.rs, the sorted Vec that is shown
    update_duplicates, \* DupSpec: the flag of main.rs that asks for the block
    step         \* DupSpec: how far the pipeline of main.rs has run

driveVars == <<drive, other_drive, enabled>>

dupVars ==
    <<driveVars, root, unfiltered, redundant, filtered, main_duplicates,
      update_duplicates, step>>

scanVars == <<fs, call, state>>

vars == <<scanVars, dupVars>>

\* ScanState::new.
ScanState_new ==
    [canceled |-> FALSE, bytes |-> 0, dirs |-> 0, files |-> 0, error_log |-> <<>>]

\* ------------------------------------------------------- DupSpec: inputs

\* Every map from a subset of the names S to values of T.
PartialMaps(S, T) == UNION {[D -> T] : D \in SUBSET S}

\* The bytes of the c-th file content: c - 1 bytes of value c (content 1 is
\* the empty file).
Content(c) == [k \in 1 .. (c - 1) |-> c]

RECURSIVE Reads(_, _)
\* The buffers fill_buf yields for the bytes left of a file when the first
\* read returns first bytes and every later one a buffer full.
Reads(content, first) ==
    IF content = <<>> THEN <<>>
    ELSE LET n == IF first < Len(content) THEN first ELSE Len(content)
         IN  <<SubSeq(content, 1, n)>>
             \o Reads(SubSeq(content, n + 1, Len(content)), BufCapacity)

RECURSIVE write_all(_, _)
\* The loop of Entry::scan on the hasher: one write for each buffer.
write_all(h, bufs) ==
    IF bufs = <<>> THEN h ELSE write_all(write(h, Head(bufs)), Tail(bufs))

\* The info Entry::scan computes for a file whose reads are cut as given.
FileInfoOfReads(content, first) ==
    EntryInfo(Len(content), "File",
              finish(write_all(build_hasher, Reads(content, first))))

\* The info Entry::scan computes for a file of the given content when every
\* read fills the buffer.
FileInfoOf(content) == FileInfoOfReads(content, BufCapacity)

Files == {FileEntry(FileInfoOf(Content(c))) : c \in 1 .. NumContents}

RootNames == {"a", "b", "z"}

SubNames == {"x", "y"}

SubDirs == {Entry_dir(m) : m \in PartialMaps(SubNames, Files)}

\* The trees of a drive: a file, or a directory of a and b (a file or a
\* directory of files each) and z (a file).
DriveTrees ==
    Files \cup {Entry_dir(m) : m \in {f \in PartialMaps(RootNames, Files \cup SubDirs) :
                                        "z" \in DOMAIN f => f["z"] \in Files}}

\* The trees of a second drive that differ from the first drive's: the
\* directories of one file.
OtherDrives == {Entry_dir([n \in {"x"} |-> f]) : f \in Files}

\* The names of the drives of main.rs.
DriveNames == {"d1", "d2"}

\* The paths of the arbitrary duplicate mappings: up to three components.
Comps == {"a", "b"}

MappingPaths ==
    {<<>>} \cup {<<c>> : c \in Comps} \cup {<<c, d>> : c \in Comps, d \in Comps}
    \cup {<<c, d, "a">> : c \in Comps, d \in Comps}

Groups == {g \in SUBSET MappingPaths : Cardinality(g) \in 1 .. MaxGroup}

MappingKeys == {EntryInfo(3, "File", <<7>>), EntryInfo(5, "Dir", <<9>>)}

\* The scenario of the prefix filter: a/x.txt and b/y.txt are identical, so
\* are the directories a and b, and so are z.txt and w.txt.
ScenarioDuplicates ==
    (EntryInfo(1, "Dir", <<21>>) :> {<<"a">>, <<"b">>})
    @@ (EntryInfo(1, "File", <<22>>) :> {<<"a", "x.txt">>, <<"b", "y.txt">>})
    @@ (EntryInfo(4, "File", <<23>>) :> {<<"z.txt">>, <<"w.txt">>})

\* A group that the duplicate directories a and b cover only in part.
PartialCoverDuplicates ==
    (EntryInfo(1, "Dir", <<21>>) :> {<<"a">>, <<"b">>})
    @@ (EntryInfo(1, "File", <<22>>) :> {<<"a", "x.txt">>, <<"b", "y.txt">>, <<"z.txt">>})

Mappings ==
    PartialMaps(MappingKeys, Groups) \cup {ScenarioDuplicates, PartialCoverDuplicates}

\* ------------------------------------------------------ DupSpec: actions

\* The scanner takes no part in DupSpec.
NoScan ==
    /\ fs = [kind |-> "nometa"]
    /\ call = EmptyMap
    /\ state = ScanState_new

DupInit ==
    /\ NoScan
    /\ redundant = 0
    /\ filtered = EmptyMap
    /\ main_duplicates = <<>>
    /\ update_duplicates = FALSE
    /\ enabled = {}
    /\ root = NoEntry
    /\ \/ /\ drive \in DriveTrees
          /\ other_drive \in {NoEntry, drive} \cup OtherDrives
          /\ unfiltered = EmptyMap
          /\ step = "drives"
       \/ /\ drive = NoEntry
          /\ other_drive = NoEntry
          /\ unfiltered \in Mappings
          /\ step = "unfiltered"

\* main.rs: the checkbox of a drive is clicked: the drive is enabled or
\* disabled, and the block of the duplicates is asked to run in this frame.
ClickCheckbox(name) ==
    /\ step \in {"drives", "filtered"}
    /\ drive # NoEntry
    /\ name = "d2" => other_drive # NoEntry
    /\ ~update_duplicates
    /\ enabled' = IF name \in enabled THEN enabled \ {name} ELSE enabled \cup {name}
    /\ update_duplicates' = TRUE
    /\ UNCHANGED <<scanVars, drive, other_drive, root, unfiltered, redundant,
                   filtered, main_duplicates, step>>

\* The synthetic root of main.rs over the enabled drives: each is a clone of
\* the tree scanned for it, under its drive name.
CombineDrives ==
    Entry_dir([name \in enabled |-> IF name = "d1" THEN drive ELSE other_drive])

\* main.rs: the block of the duplicates, which runs within one frame: the
\* flag is cleared, the root is built over the enabled drives, then
\* unfiltered_duplicates, redundant_bytes, filter_duplicates_by_prefix, the
\* map of its groups to the Vec of duplicates and the sort of the Vec.
UpdateDuplicates ==
    /\ update_duplicates
    /\ update_duplicates' = FALSE
    /\ root' = CombineDrives
    /\ unfiltered' = unfiltered_duplicates(root')
    /\ redundant' = redundant_bytes(unfiltered')
    /\ filtered' = filter_duplicates_by_prefix(unfiltered')
    /\ main_duplicates' \in sort_unstable_by_key(WithRedundantBytes(filtered'))
    /\ step' = "filtered"
    /\ UNCHANGED <<scanVars, driveVars>>

\* unfiltered_duplicates is called on the tree of one drive alone.
Standalone ==
    /\ step = "drives"
    /\ other_drive = NoEntry
    /\ ~update_duplicates
    /\ root' = drive
    /\ step' = "root"
    /\ UNCHANGED <<scanVars, driveVars, unfiltered, redundant, filtered, main_duplicates,
                   update_duplicates>>

UnfilteredDuplicates ==
    /\ step = "root"
    /\ unfiltered' = unfiltered_duplicates(root)
    /\ step' = "unfiltered"
    /\ UNCHANGED <<scanVars, driveVars, root, redundant, filtered, main_duplicates,
                   update_duplicates>>

RedundantBytes ==
    /\ step = "unfiltered"
    /\ redundant' = redundant_bytes(unfiltered)
    /\ step' = "redundant"
    /\ UNCHANGED <<scanVars, driveVars, root, unfiltered, filtered, main_duplicates,
                   update_duplicates>>

\* filter_duplicates_by_prefix with what main.rs does to its result: the map
\* of the groups to the Vec of duplicates and the sort of the Vec.
FilterDuplicates ==
    /\ step = "redundant"
    /\ filtered' = filter_duplicates_by_prefix(unfiltered)
    /\ main_duplicates' \in sort_unstable_by_key(WithRedundantBytes(filtered'))
    /\ step' = "filtered"
    /\ UNCHANGED <<scanVars, driveVars, root, unfiltered, redundant, update_duplicates>>

DupNext ==
    \/ \E name \in DriveNames : ClickCheckbox(name)
    \/ UpdateDuplicates
    \/ Standalone
    \/ UnfilteredDuplicates
    \/ RedundantBytes
    \/ FilterDuplicates

\* The root, the unfiltered mapping and the redundant bytes are those of the
\* run that is under way or ended last.
HasRoot == root # NoEntry /\ step \in {"root", "unfiltered", "redundant", "filtered"}

HasUnfiltered == step \in {"unfiltered", "redundant", "filtered"}

HasRedundant == step \in {"redundant", "filtered"}

DupSpec == DupInit /\ [][DupNext]_vars

\* ------------------------------------------------------- DupSpec: claims

\* The path sets of a mapping.
PathSets(duplicates) == {duplicates[i] : i \in DOMAIN duplicates}

\* The k-th ancestor of every path of a set (each path is longer than k).
Ancestors(paths, k) == {SubSeq(path, 1, Len(path) - k) : path \in paths}

\* Some k >= 1 takes the group to a path set of the mapping before any of its
\* paths reaches the root.
ImpliedByAncestors(duplicates, paths) ==
    \E k \in 1 .. Len(CHOOSE path \in paths : TRUE) :
        /\ \A path \in paths : Len(path) > k
        /\ Ancestors(paths, k) \in PathSets(duplicates)

AllGroupsAreDuplicates(duplicates) ==
    \A i \in DOMAIN duplicates : Cardinality(duplicates[i]) >= 2

ScenarioDir == EntryInfo(1, "Dir", <<21>>)

ScenarioNested == EntryInfo(1, "File", <<22>>)

ScenarioTop == EntryInfo(4, "File", <<23>>)

\* C3: over a mapping whose groups have at least two paths,
\* filter_duplicates_by_prefix discards a group iff for some k >= 1 the set of
\* the k-th ancestors of its paths is the path set of a group of the input and
\* no path of the group reaches the root within k steps; a group the duplicate
\* directories cover only in part is kept, and of the groups {a, b},
\* {a/x.txt, b/y.txt}, {z.txt, w.txt} only {a/x.txt, b/y.txt} is removed.
C3_FilterDiscardsExactlyImplied ==
    (step = "filtered" /\ AllGroupsAreDuplicates(unfiltered)) =>
        /\ \A i \in DOMAIN unfiltered :
              (i \notin DOMAIN filtered) <=> ImpliedByAncestors(unfiltered, unfiltered[i])
        /\ (unfiltered = ScenarioDuplicates) =>
              DOMAIN filtered = {ScenarioDir, ScenarioTop}
        /\ (unfiltered = PartialCoverDuplicates) =>
              DOMAIN filtered = {ScenarioDir, ScenarioNested}

\* The scenario was filtered and lost exactly its nested group.
C3_Witness ==
    /\ step = "filtered"
    /\ unfiltered = ScenarioDuplicates
    /\ ScenarioNested \notin DOMAIN filtered
    /\ Cardinality(DOMAIN filtered) = 2

\* C4: the output of filter_duplicates_by_prefix is a sub-mapping of its input:
\* every key of the output is a key of the input with the same path set.
C4_FilterIsSubMapping ==
    (step = "filtered") =>
        /\ DOMAIN filtered \subseteq DOMAIN unfiltered
        /\ \A i \in DOMAIN filtered : filtered[i] = unfiltered[i]

\* A filter that dropped one group and kept another.
C4_Witness ==
    /\ step = "filtered"
    /\ DOMAIN filtered # {}
    /\ DOMAIN filtered # DOMAIN unfiltered

RECURSIVE PathsOf(_)
\* The full paths of the nodes of a tree, the root's being the empty path.
PathsOf(entry) ==
    {<<>>} \cup
    ( IF entry.tag = "File" THEN {}
      ELSE UNION {{<<n>> \o path : path \in PathsOf(entry.entries[n])} :
                    n \in DOMAIN entry.entries} )

RECURSIVE NodeAt(_, _)
\* The node of a tree at a path.
NodeAt(entry, path) ==
    IF path = <<>> THEN entry ELSE NodeAt(entry.entries[Head(path)], Tail(path))

\* The paths of the nodes of a tree that have the given info.
PathsWithInfo(entry, i) == {path \in PathsOf(entry) : NodeAt(entry, path).info = i}

InfosOf(entry) == {NodeAt(entry, path).info : path \in PathsOf(entry)}

\* C5: unfiltered_duplicates of a tree has a key for exactly the infos that at
\* least two nodes have (the root, the directories and the files), mapped to
\* the set of the full paths of those nodes; every group has two members or
\* more.
C5_UnfilteredDuplicatesGroupsNodes ==
    (HasRoot /\ HasUnfiltered) =>
        /\ DOMAIN unfiltered \subseteq InfosOf(root)
        /\ \A i \in InfosOf(root) :
              /\ (i \in DOMAIN unfiltered) <=> (Cardinality(PathsWithInfo(root, i)) >= 2)
              /\ (i \in DOMAIN unfiltered) => (unfiltered[i] = PathsWithInfo(root, i))
        /\ \A i \in DOMAIN unfiltered : Cardinality(unfiltered[i]) >= 2

\* a/x and b/x are identical and nothing else exists: one File group and one
\* Dir group.
C5_Witness ==
    /\ HasUnfiltered
    /\ HasRoot
    /\ root.tag = "Dir"
    /\ DOMAIN root.entries = {"a", "b"}
    /\ \E i \in DOMAIN unfiltered : i.kind = "File" /\ unfiltered[i] = {<<"a", "x">>, <<"b", "x">>}
    /\ \E i \in DOMAIN unfiltered : i.kind = "Dir" /\ unfiltered[i] = {<<"a">>, <<"b">>}
    /\ Cardinality(DOMAIN unfiltered) = 2

RECURSIVE SumBytes(_)
\* The sum of the bytes of a set of (info, path) pairs.
SumBytes(pairs) ==
    IF pairs = {} THEN 0
    ELSE LET pair == CHOOSE x \in pairs : TRUE
         IN  pair[1].bytes + SumBytes(pairs \ {pair})

\* The members of the File groups of a mapping, but one member of each.
SpareFileMembers(duplicates) ==
    {<<i, path>> \in UNION {{i} \X duplicates[i] : i \in DOMAIN duplicates} :
        /\ i.kind = "File"
        /\ path # (CHOOSE keep \in duplicates[i] : TRUE)}

\* C6: redundant_bytes is the sum over the File groups of bytes times the
\* number of paths less one; Dir groups add nothing.
C6_RedundantBytesSumsFileGroups ==
    HasRedundant =>
        redundant = SumBytes(SpareFileMembers(unfiltered))

\* A total with a File group to count and a Dir group of non-zero size to
\* leave out.
C6_Witness ==
    /\ HasRedundant
    /\ redundant > 0
    /\ \E i \in DOMAIN unfiltered : i.kind = "Dir" /\ i.bytes > 0

RECURSIVE SumOfChildren(_, _, _)
\* The sum of one field of the children of a map, over the names ns.
SumOfChildren(entries, ns, field) ==
    IF ns = {} THEN 0
    ELSE LET n == CHOOSE x \in ns : TRUE
             e == entries[n]
             v == CASE field = "dirs"  -> (IF e.tag = "Dir" THEN e.dirs ELSE 0)
                    [] field = "files" -> (IF e.tag = "Dir" THEN e.files ELSE 1)
                    [] field = "bytes" -> e.info.bytes
         IN  v + SumOfChildren(entries, ns \ {n}, field)

\* The aggregation invariant at one node.
Aggregates(e) ==
    IF e.tag = "Dir"
    THEN /\ e.dirs = 1 + SumOfChildren(e.entries, DOMAIN e.entries, "dirs")
         /\ e.files = SumOfChildren(e.entries, DOMAIN e.entries, "files")
         /\ e.info.bytes = SumOfChildren(e.entries, DOMAIN e.entries, "bytes")
         /\ e.info.kind = "Dir"
    ELSE /\ dirs(e) = 0
         /\ files(e) = 1
         /\ e.info.kind = "File"

\* C7: every node of a tree built by Entry::dir satisfies the aggregation
\* invariant: a Dir has dirs = 1 + the sum of its children's dirs, files and
\* bytes the sums of its children's, and kind Dir; a File has dirs 0, files 1,
\* kind File.
C7_AggregationInvariant ==
    /\ (step = "drives") => \A path \in PathsOf(drive) : Aggregates(NodeAt(drive, path))
    /\ HasRoot => \A path \in PathsOf(root) : Aggregates(NodeAt(root, path))

\* A synthetic root over two drives that hold directories of files.
C7_Witness ==
    /\ HasRoot
    /\ root.tag = "Dir"
    /\ root.dirs >= 5
    /\ root.files >= 4
    /\ root.info.bytes >= 2

\* The sequence s rearranged by the permutation f of its indices.
Permuted(s, f) == [k \in DOMAIN s |-> s[f[k]]]

\* The infos of the children of a directory, in key order.
ChildInfos(e) == [k \in DOMAIN Values(e.entries) |-> info(Values(e.entries)[k])]

\* The children of a directory under other names: r maps each name to a new one.
Renamed(entries, r) ==
    [n \in {r[m] : m \in DOMAIN entries} |->
        entries[CHOOSE m \in DOMAIN entries : r[m] = n]]

Injections(S, T) == {r \in [S -> T] : \A x, y \in S : r[x] = r[y] => x = y}

RenameTargets == {"b", "w", "z"}

\* C8: the info of a directory depends only on the multiset of its children's
\* infos: every order of the children gives EntryInfo::dir the same result, and
\* Entry::dir over the same children under any names gives the same info,
\* files and dirs.
C8_DirInfoIgnoresOrderAndNames ==
    (HasRoot /\ root.tag = "Dir") =>
        LET infos == ChildInfos(root)
        IN  /\ \A f \in Permutations(DOMAIN infos) :
                  EntryInfo_dir(Permuted(infos, f)) = root.info
            /\ \A r \in Injections(DOMAIN root.entries, RenameTargets) :
                  LET other == Entry_dir(Renamed(root.entries, r))
                  IN  /\ other.info = root.info
                      /\ other.dirs = root.dirs
                      /\ other.files = root.files

\* A directory whose children have three different fingerprints.
C8_Witness ==
    /\ HasRoot
    /\ root.tag = "Dir"
    /\ Cardinality({root.entries[n].info.hash : n \in DOMAIN root.entries}) >= 3

\* ------------------------------------------------------ Spec: file system

\* A regular file: read_fails_at = k makes the k-th fill_buf fail (0: none);
\* the first read of it returns first_read bytes at most, every later one
\* a buffer full.
FileNode(content, open_fails, read_fails_at, first_read) ==
    [kind |-> "file", content |-> content, open_fails |-> open_fails,
     read_fails_at |-> read_fails_at, first_read |-> first_read]

\* A directory: list_fails makes read_dir fail; entry_fails makes the listing
\* yield an error once it has yielded the entries named by before_error,
\* which ends it: std::fs::ReadDir yields nothing after an error.
DirNode(entries, list_fails, entry_fails, before_error) ==
    [kind |-> "dir", entries |-> entries, list_fails |-> list_fails,
     entry_fails |-> entry_fails, before_error |-> before_error]

\* The names the listing of a directory yields before it ends.
Yielded(node) == IF node.entry_fails THEN node.before_error ELSE DOMAIN node.entries

\* A socket, a device, a fifo.
OtherNode == [kind |-> "other"]

\* A path whose metadata cannot be read.
NoMetaNode == [kind |-> "nometa"]

\* A symbolic link; the target is a node, or MissingNode for a dangling link.
SymlinkNode(target) == [kind |-> "symlink", target |-> target]

MissingNode == [kind |-> "missing"]

\* A file of two chunks: one byte more than the buffer holds.
LongContent == Content(BufCapacity + 2)

GoodFiles ==
    {FileNode(Content(1), FALSE, 0, BufCapacity),
     FileNode(LongContent, FALSE, 0, BufCapacity),
     FileNode(LongContent, FALSE, 0, 1)}

FaultyFiles ==
    {FileNode(LongContent, TRUE, 0, BufCapacity),
     FileNode(LongContent, FALSE, 1, BufCapacity),
     FileNode(LongContent, FALSE, 2, BufCapacity)}

ScanLeaves ==
    GoodFiles \cup FaultyFiles \cup {OtherNode, NoMetaNode}
    \cup {SymlinkNode(FileNode(Content(1), FALSE, 0, BufCapacity)),
          SymlinkNode(MissingNode),
          SymlinkNode(DirNode(EmptyMap, FALSE, FALSE, {}))}

SubLeaves ==
    {FileNode(LongContent, FALSE, 0, BufCapacity),
     FileNode(LongContent, FALSE, 2, BufCapacity), OtherNode, NoMetaNode}

\* The directories below the root: of one leaf at most; the listing is
\* whole, or it ends on an error before or after the leaf, or cannot begin.
ScanSubDirs ==
    {DirNode(m, FALSE, FALSE, DOMAIN m) : m \in PartialMaps({"x"}, SubLeaves)}
    \cup UNION {{DirNode(m, FALSE, TRUE, seen) : seen \in SUBSET DOMAIN m} :
                  m \in PartialMaps({"x"}, SubLeaves)}
    \cup {DirNode(EmptyMap, TRUE, FALSE, {})}

\* The directories of two regular files whose names are not valid UTF-8.
NonUtf8Dirs ==
    {DirNode(m, FALSE, FALSE, DOMAIN m) : m \in [NonUtf8Names -> GoodFiles]}

\* The file systems scanned: a leaf, or a directory of a (a leaf or a
\* directory of one leaf) and b (a leaf), or a directory of two files whose
\* names are not valid UTF-8.
FileSystems ==
    ScanLeaves \cup {DirNode(EmptyMap, TRUE, FALSE, {})}
    \cup {DirNode(m, FALSE, FALSE, DOMAIN m) :
            m \in {f \in PartialMaps({"a", "b"}, ScanLeaves \cup ScanSubDirs) :
                     "b" \in DOMAIN f => f["b"] \in ScanLeaves}}
    \cup NonUtf8Dirs

\* The scanned root path, relative to itself.
RootPath == <<>>

\* Every path a call of Entry::scan can be made on.
ScanPaths ==
    {<<>>, <<"a">>, <<"b">>, <<"a", "x">>} \cup {<<name>> : name \in NonUtf8Names}

RECURSIVE NodeUnder(_, _)
\* The node at a path under a node.
NodeUnder(node, path) ==
    IF path = <<>> THEN node
    ELSE IF node.kind = "dir" /\ Head(path) \in DOMAIN node.entries
         THEN NodeUnder(node.entries[Head(path)], Tail(path))
         ELSE MissingNode

\* What the path names once symbolic links are followed (Path::metadata,
\* File::open and Path::read_dir all follow them).
Resolved(path) ==
    LET node == NodeUnder(fs, path)
    IN  IF node.kind = "symlink" THEN node.target ELSE node

\* path.metadata(): "error", or the kind of the file the path resolves to.
metadata(path) ==
    IF Resolved(path).kind \in {"nometa", "missing"} THEN "error"
    ELSE Resolved(path).kind

\* --------------------------------------------------------- Spec: ScanState

\* A mutant of canceled: the flag is never seen.
canceled_never(s) == FALSE

\* ScanState::canceled.
canceled(s) == s.canceled

\* A mutant of cancel: the flag is flipped, not set.
cancel_flips(s) == [s EXCEPT !.canceled = ~@]

\* ScanState::cancel.
cancel(s) == [s EXCEPT !.canceled = TRUE]

\* A mutant of add_bytes: a store of the amount where a fetch_add is meant.
store_bytes(s, n) == [s EXCEPT !.bytes = n]

\* ScanState::add_bytes.
add_bytes(s, n) == [s EXCEPT !.bytes = @ + n]

\* ScanState::inc_dirs.
inc_dirs(s) == [s EXCEPT !.dirs = @ + 1]

\* ScanState::inc_files.
inc_files(s) == [s EXCEPT !.files = @ + 1]

\* A mutant of log: the message replaces the log, which keeps the last one only.
log_overwrites(s, what, path) ==
    [s EXCEPT !.error_log = <<[what |-> what, path |-> path]>>]

\* ScanState::log; a message is its wording and the path it displays.
log(s, what, path) ==
    [s EXCEPT !.error_log = Append(@, [what |-> what, path |-> path])]

\* Option::None for the result of last_error_plus.
NoError == [tag |-> "None"]

\* slice::last: the last element of a Vec, None when it is empty.
last(v) == IF v = <<>> THEN NoError ELSE [tag |-> "Some", value |-> v[Len(v)]]

\* ScanState::last_error_plus: the last message and how many more there are;
\* the ? returns None before len() - 1 is computed.
last_error_plus(s) ==
    IF last(s.error_log) = NoError THEN NoError
    ELSE [tag |-> "Some", message |-> last(s.error_log).value,
          plus |-> Len(s.error_log) - 1]

\* ScanState::clone_error_log: a copy of the log, taken under the lock.
clone_error_log(s) == s.error_log

\* ------------------------------------------------------- Spec: Entry::scan

\* A call not made yet.
IdleCall ==
    [pc |-> "idle", hasher |-> build_hasher, bytes |-> 0, pos |-> 0, fills |-> 0,
     pending |-> {}, bad |-> FALSE, file_name |-> "", ret |-> NoEntry,
     exit |-> "running"]

\* The call on path returns ret through the return statement named by exit.
Return(path, ret, exit) ==
    [call EXCEPT ![path] = [@ EXCEPT !.pc = "done", !.ret = ret, !.exit = exit]]

\* The call on path moves on to pc.
Goto(path, pc) == [call EXCEPT ![path].pc = pc]

Init ==
    /\ fs \in FileSystems
    /\ call = [path \in ScanPaths |-> IdleCall]
    /\ state = ScanState_new
    /\ drive = NoEntry
    /\ other_drive = NoEntry
    /\ enabled = {}
    /\ root = NoEntry
    /\ unfiltered = EmptyMap
    /\ redundant = 0
    /\ filtered = EmptyMap
    /\ main_duplicates = <<>>
    /\ update_duplicates = FALSE
    /\ step = "scan"

\* main.rs DriveState::scan: the spawned thread calls Entry::scan on the root.
BeginScan ==
    /\ call[RootPath].pc = "idle"
    /\ call' = Goto(RootPath, "enter")
    /\ UNCHANGED <<fs, state, dupVars>>

\* The button of main.rs: ScanState::cancel, at any time.
Cancel ==
    /\ state' = cancel(state)
    /\ UNCHANGED <<fs, call, dupVars>>

\* Entry::scan, the check on entry.
Enter(path) ==
    /\ call[path].pc = "enter"
    /\ IF canceled(state)
       THEN call' = Return(path, NoEntry, "canceled")
       ELSE call' = Goto(path, "metadata")
    /\ UNCHANGED <<fs, state, dupVars>>

\* Entry::scan, path.metadata() and the branch on it.
Metadata(path) ==
    /\ call[path].pc = "metadata"
    /\ CASE metadata(path) = "error" ->
              /\ state' = log(state, "failed to read metadata of", path)
              /\ call' = Return(path, NoEntry, "metadata_err")
         [] metadata(path) = "file" ->
              /\ state' = state
              /\ call' = Goto(path, "open")
         [] metadata(path) = "dir" ->
              /\ state' = state
              /\ call' = Goto(path, "read_dir")
         [] OTHER ->
              /\ state' = log(state, "skipped (neither file/dir):", path)
              /\ call' = Return(path, NoEntry, "skipped")
    /\ UNCHANGED <<fs, dupVars>>

\* Entry::scan, File::open and the fresh reader and hasher.
Open(path) ==
    /\ call[path].pc = "open"
    /\ IF Resolved(path).open_fails
       THEN /\ state' = log(state, "failed to open", path)
            /\ call' = Return(path, NoEntry, "open_err")
       ELSE /\ state' = state
            /\ call' = [call EXCEPT ![path] =
                          [@ EXCEPT !.pc = "fill", !.hasher = build_hasher,
                                    !.bytes = 0, !.pos = 0, !.fills = 0]]
    /\ UNCHANGED <<fs, dupVars>>

\* The buffer fill_buf yields: the next bytes of the file, as many as the
\* read returns.
Buf(path) ==
    LET content == Resolved(path).content
        read == IF call[path].pos = 0 THEN Resolved(path).first_read ELSE BufCapacity
        from == call[path].pos + 1
        to == IF call[path].pos + read < Len(content)
              THEN call[path].pos + read ELSE Len(content)
    IN  SubSeq(content, from, to)

\* Entry::scan, the condition of the while loop: fill_buf, and the end of the
\* loop on an empty buffer.
FillBuf(path) ==
    /\ call[path].pc = "fill"
    /\ IF Resolved(path).read_fails_at = call[path].fills + 1
       THEN /\ state' = log(state, "failed to read", path)
            /\ call' = Return(path, NoEntry, "read_err")
       ELSE IF Buf(path) = <<>>
       THEN /\ state' = inc_files(state)
            /\ call' = Return(path,
                              FileEntry(EntryInfo(call[path].bytes, "File",
                                                  finish(call[path].hasher))),
                              "file")
       ELSE /\ state' = state
            /\ call' = [call EXCEPT ![path] =
                          [@ EXCEPT !.pc = "chunk", !.fills = @ + 1]]
    /\ UNCHANGED <<fs, dupVars>>

\* Entry::scan, the check of the flag that begins the body of the while loop.
Chunk(path) ==
    /\ call[path].pc = "chunk"
    /\ IF canceled(state)
       THEN call' = Return(path, NoEntry, "canceled")
       ELSE call' = Goto(path, "hash")
    /\ UNCHANGED <<fs, state, dupVars>>

\* Entry::scan, the rest of the body of the while loop: the buffer is
\* hashed, counted and consumed, whatever has become of the flag.
HashChunk(path) ==
    /\ call[path].pc = "hash"
    /\ state' = add_bytes(state, Len(Buf(path)))
    /\ call' = [call EXCEPT ![path] =
                  [@ EXCEPT !.pc = "fill",
                            !.hasher = write(@, Buf(path)),
                            !.bytes = @ + Len(Buf(path)),
                            !.pos = @ + Len(Buf(path))]]
    /\ UNCHANGED <<fs, dupVars>>

\* A mutant of ReadDir: the directory is counted as soon as it is listed.
ReadDirCounting(path) ==
    /\ call[path].pc = "read_dir"
    /\ IF Resolved(path).list_fails
       THEN /\ state' = state
            /\ call' = Return(path, NoEntry, "read_dir_err")
       ELSE /\ state' = inc_dirs(state)
            /\ call' = [call EXCEPT ![path] =
                          [@ EXCEPT !.pc = "entries",
                                    !.pending = Yielded(Resolved(path)),
                                    !.bad = Resolved(path).entry_fails]]
    /\ UNCHANGED <<fs, dupVars>>

\* Entry::scan, path.read_dir().ok()?.
ReadDir(path) ==
    /\ call[path].pc = "read_dir"
    /\ IF Resolved(path).list_fails
       THEN call' = Return(path, NoEntry, "read_dir_err")
       ELSE call' = [call EXCEPT ![path] =
                        [@ EXCEPT !.pc = "entries",
                                  !.pending = Yielded(Resolved(path)),
                                  !.bad = Resolved(path).entry_fails]]
    /\ UNCHANGED <<fs, state, dupVars>>

\* The listing yields the entry of a child, in any order: a worker takes
\* the lossy conversion of its name as the key, file_name, and begins
\* Entry::scan on dir_entry.path(), the path of the name itself.
NextEntry(path) ==
    /\ call[path].pc = "entries"
    /\ \E name \in call[path].pending :
          call' = [call EXCEPT ![path].pending = @ \ {name},
                               ![push(path, name)] =
                                   [@ EXCEPT !.pc = "enter",
                                             !.file_name = to_string_lossy(name)]]
    /\ UNCHANGED <<fs, state, dupVars>>

\* The listing yields an error where an entry was due, after the entries
\* before it: it is logged, and the listing has ended.
BadEntry(path) ==
    /\ call[path].pc = "entries"
    /\ call[path].pending = {}
    /\ call[path].bad
    /\ call' = [call EXCEPT ![path].bad = FALSE]
    /\ state' = log(state, "failed to read dir", path)
    /\ UNCHANGED <<fs, dupVars>>

\* The names of the children the call on path began a scan of.
Begun(path) == Yielded(Resolved(path)) \ call[path].pending

\* Every scan of a child begun by the call on path has returned.
ChildrenDone(path) ==
    \A name \in Begun(path) : call[push(path, name)].pc = "done"

\* The children whose closure returned a pair (file_name, entry): those whose
\* scan returned an entry.
Pairs(path) == {name \in Begun(path) : call[push(path, name)].ret # NoEntry}

\* The keys of the pairs.
PairKeys(path) == {call[push(path, name)].file_name : name \in Pairs(path)}

\* The pairs reach the BTreeMap in the order the workers finish and the
\* parallel collect joins them, and of two pairs with one key the map keeps
\* the later: a winner names, for every key, the child whose pair is kept.
Winners(path) ==
    {winner \in [PairKeys(path) -> Pairs(path)] :
        \A file_name \in PairKeys(path) :
            call[push(path, winner[file_name])].file_name = file_name}

\* The BTreeMap collected from the pairs: under every key the entry of the
\* child that won it.
Collected(path, winner) ==
    [file_name \in PairKeys(path) |-> call[push(path, winner[file_name])].ret]

\* Entry::scan, the end of the directory branch: the listing is exhausted and
\* the children collected.
Collect(path) ==
    /\ call[path].pc = "entries"
    /\ call[path].pending = {}
    /\ ~call[path].bad
    /\ ChildrenDone(path)
    /\ state' = inc_dirs(state)
    /\ \E winner \in Winners(path) :
          call' = Return(path, Entry_dir(Collected(path, winner)), "dir")
    /\ UNCHANGED <<fs, dupVars>>

Next ==
    \/ BeginScan
    \/ Cancel
    \/ \E path \in ScanPaths :
          \/ Enter(path)
          \/ Metadata(path)
          \/ Open(path)
          \/ FillBuf(path)
          \/ Chunk(path)
          \/ HashChunk(path)
          \/ ReadDir(path)
          \/ NextEntry(path)
          \/ BadEntry(path)
          \/ Collect(path)

Spec == Init /\ [][Next]_vars

\* ----------------------------------------------------------- Spec: claims

\* C2: a call of Entry::scan that begins once the flag is set returns absent
\* at once and leaves the ScanState as it was: nothing is logged and no
\* counter moves; no other call moves with it.
C2_CallAfterCancelReturnsUntouched ==
    [][\A path \in ScanPaths :
          (call[path].pc = "enter" /\ state.canceled /\ call'[path] # call[path]) =>
              /\ call'[path].pc = "done"
              /\ call'[path].ret = NoEntry
              /\ state' = state
              /\ \A other \in ScanPaths \ {path} : call'[other] = call[other]]_vars

\* A child whose metadata cannot be read was begun after the cancellation and
\* returned absent: nothing was logged and nothing counted but the steps of
\* its parent.
C2_Witness ==
    /\ state.canceled
    /\ call[<<"b">>].exit = "canceled"
    /\ Resolved(<<"b">>).kind = "nometa"
    /\ state.error_log = <<>>
    /\ state.files = 0
    /\ state.bytes = 0

\* The number of fill_buf calls that read a whole file: one per buffer and
\* the last, which finds the end.
FillsToRead(node) == Len(Reads(node.content, node.first_read)) + 1

RECURSIVE ExpectedEntry(_)
\* The tree a scan of a node yields when it runs alone and is not canceled:
\* depth first, one child after the other. Of the children whose names turn
\* into one key the mapping holds one, for a fixed file system always the
\* same.
ExpectedEntry(node) ==
    LET n == IF node.kind = "symlink" THEN node.target ELSE node
    IN  CASE n.kind = "file" ->
               IF n.open_fails
                  \/ (n.read_fails_at > 0 /\ n.read_fails_at <= FillsToRead(n))
               THEN NoEntry
               ELSE FileEntry(FileInfoOfReads(n.content, n.first_read))
          [] n.kind = "dir" ->
               IF n.list_fails THEN NoEntry
               ELSE LET scanned == {m \in Yielded(n) :
                                       ExpectedEntry(n.entries[m]) # NoEntry}
                        kept(file_name) ==
                            CHOOSE m \in scanned : to_string_lossy(m) = file_name
                    IN  Entry_dir([file_name \in {to_string_lossy(m) : m \in scanned} |->
                                     ExpectedEntry(n.entries[kept(file_name)])])
          [] OTHER -> NoEntry

\* The calls that returned absent because they saw the cancellation flag
\* although the path, scanned to its end, yields an entry.
CutShort ==
    {path \in ScanPaths :
        /\ call[path].exit = "canceled"
        /\ ExpectedEntry(NodeUnder(fs, path)) # NoEntry}

\* C1: when cancel() is invoked while the scan of the root is in flight, the
\* root call returns absent; it never returns a truncated tree, a directory
\* that left out children whose own scan saw the cancellation flag.
C1_CanceledScanYieldsNoTree ==
    (call[RootPath].pc = "done" /\ CutShort \ {RootPath} # {}) =>
        call[RootPath].ret = NoEntry

\* C9: for a fixed file system and a scan that is never canceled, the tree the
\* root call returns is the same under every interleaving and completion
\* order of the children: names, shape, infos and counts.
C9_ScanResultIsDeterministic ==
    (call[RootPath].pc = "done" /\ ~state.canceled) =>
        call[RootPath].ret = ExpectedEntry(fs)

\* The messages of the error log that display the path.
Logged(path) ==
    {k \in DOMAIN state.error_log : state.error_log[k].path = path}

\* The directory entries of path whose read failed so far: one at most, as
\* the listing ends with it.
FailedEntries(path) ==
    IF /\ call[path].pc \in {"entries", "done"}
       /\ call[path].exit \in {"running", "dir"}
       /\ Resolved(path).entry_fails
       /\ ~call[path].bad
    THEN 1
    ELSE 0

\* C10: when Entry::scan returns absent for a path for a reason other than
\* cancellation (metadata, open, read, an unlistable directory, neither file
\* nor directory), and when the read of a directory entry fails, a message
\* that names the path is in the error log by the time the call returns.
C10_EveryErrorIsLogged ==
    \A path \in ScanPaths :
        /\ (call[path].pc = "done" /\ call[path].ret = NoEntry
            /\ call[path].exit # "canceled") => Logged(path) # {}
        /\ FailedEntries(path) > 0 => Logged(path) # {}

\* The messages of the error log that say the path was skipped.
SkippedMessages(path) ==
    {k \in Logged(path) : state.error_log[k].what = "skipped (neither file/dir):"}

\* The paths that are neither a regular file nor a directory: a socket, a
\* device, a fifo, or a symbolic link, whatever it points to.
IsNeitherFileNorDir(path) == NodeUnder(fs, path).kind \in {"other", "symlink"}

\* C11: a call of Entry::scan on a path that is neither a regular file nor a
\* directory, a symbolic link included whatever it points to, that got past
\* the cancellation check returns absent through the skipped branch with a
\* skipped message naming the path in the error log; the link is not followed.
C11_NeitherFileNorDirIsSkipped ==
    \A path \in ScanPaths :
        (IsNeitherFileNorDir(path) /\ call[path].pc = "done"
         /\ call[path].exit # "canceled") =>
            /\ call[path].ret = NoEntry
            /\ call[path].exit = "skipped"
            /\ SkippedMessages(path) # {}

\* The calls on directories whose listing succeeded and that have returned.
ListedDirs ==
    {path \in ScanPaths :
        /\ call[path].pc = "done"
        /\ call[path].exit # "canceled"
        /\ Resolved(path).kind = "dir"
        /\ ~Resolved(path).list_fails}

\* The children of a listed directory whose own scan returned an entry.
ChildrenWithEntry(path) ==
    {n \in DOMAIN Resolved(path).entries : call[push(path, n)].ret # NoEntry}

\* The children of a listed directory that failed: their scan returned absent
\* after logging an error.
FailedChildren(path) ==
    {n \in DOMAIN Resolved(path).entries :
        call[push(path, n)].exit \in
            {"metadata_err", "skipped", "open_err", "read_err", "read_dir_err"}}

\* The children of a listed directory that yield an entry when scanned on
\* their own.
ChildrenThatScan(path) ==
    {n \in DOMAIN Resolved(path).entries :
        ExpectedEntry(Resolved(path).entries[n]) # NoEntry}

\* C12: an error on one entry neither ends nor alters the scan of its parent
\* or of its siblings. A directory whose listing succeeded returns a Dir
\* entry whose child mapping holds exactly the children whose own scan
\* returned an entry, each under its own name with the entry its scan
\* returned; when nothing is canceled these are the children that yield an
\* entry scanned on their own, each with that entry, whatever failed next to
\* it (a sibling or an entry of the listing).
C12_ChildErrorLeavesSiblings ==
    \A path \in ListedDirs :
        /\ call[path].ret # NoEntry
        /\ call[path].ret.tag = "Dir"
        /\ DOMAIN call[path].ret.entries =
              {to_string_lossy(n) : n \in ChildrenWithEntry(path)}
        /\ \A n \in ChildrenWithEntry(path) :
              call[path].ret.entries[to_string_lossy(n)] = call[push(path, n)].ret
        /\ ~state.canceled =>
              /\ DOMAIN call[path].ret.entries =
                    {to_string_lossy(n) : n \in ChildrenThatScan(path)}
              /\ \A n \in ChildrenThatScan(path) :
                    call[path].ret.entries[to_string_lossy(n)] =
                        ExpectedEntry(Resolved(path).entries[n])
        /\ call[path].ret = Entry_dir(call[path].ret.entries)

\* The calls that hashed a regular file to its end and returned a File entry.
Hashed == {path \in ScanPaths : call[path].exit = "file"}

RECURSIVE SumLengths(_)
\* The byte lengths of the files at the paths, summed.
SumLengths(paths) ==
    IF paths = {} THEN 0
    ELSE LET path == CHOOSE p \in paths : TRUE
         IN  Len(Resolved(path).content) + SumLengths(paths \ {path})

\* C13: the files and bytes counters move on success only. Once the scan of
\* the root has returned, files is the number of files hashed to their end,
\* bytes is the sum of their byte lengths, and each yielded a File entry whose
\* bytes is its length; an aborted file added nothing to either counter.
C13_FileCountersMoveOnSuccessOnly ==
    call[RootPath].pc = "done" =>
        /\ state.files = Cardinality(Hashed)
        /\ state.bytes = SumLengths(Hashed)
        /\ \A path \in Hashed :
              /\ call[path].ret.tag = "File"
              /\ call[path].ret.info.bytes = Len(Resolved(path).content)

\* The directories all of whose child scans have completed: the listing is
\* exhausted and the scan of every child has returned.
DirsWithChildrenDone ==
    {path \in ScanPaths :
        /\ call[path].pc \in {"entries", "done"}
        /\ call[path].exit \in {"running", "dir"}
        /\ call[path].pending = {}
        /\ \A n \in Yielded(Resolved(path)) : call[push(path, n)].pc = "done"}

\* The directories counted so far: their call went through inc_dirs.
CountedDirs == {path \in ScanPaths : call[path].exit = "dir"}

\* C14: in every reachable state dirs is at most the number of directories all
\* of whose child scans have completed; a counted directory is one of them,
\* so no directory is counted before a directory below it.
C14_DirCountedAfterChildren ==
    /\ state.dirs <= Cardinality(DirsWithChildrenDone)
    /\ state.dirs = Cardinality(CountedDirs)
    /\ CountedDirs \subseteq DirsWithChildrenDone
    /\ \A path \in CountedDirs :
          \A n \in DOMAIN Resolved(path).entries :
              Resolved(push(path, n)).kind = "dir" /\ call[push(path, n)].ret # NoEntry
                  => push(path, n) \in CountedDirs

\* The directory a is counted, its child scanned, while the root still waits
\* for the scan of b: the only directory counted is the lower one.
C14_Witness ==
    /\ state.dirs = 1
    /\ CountedDirs = {<<"a">>}
    /\ call[<<"a", "x">>].pc = "done"
    /\ call[RootPath].pc = "entries"
    /\ call[<<"b">>].pc \notin {"idle", "done"}

\* The calls that observed the cancellation flag as true.
ObservedCanceled == {path \in ScanPaths : call[path].exit = "canceled"}

\* C15: the cancellation flag starts false; a step changes it only by setting
\* it, as cancel() does; once it is true, or once a call has observed it as
\* true, it is true after every later step of the scan and of the ScanState;
\* cancel() on a canceled ScanState changes nothing.
C15_CancelFlagIsMonotonic ==
    /\ state.canceled = FALSE
    /\ [][/\ state.canceled => state'.canceled
          /\ ObservedCanceled # {} => state.canceled /\ state'.canceled
          /\ state'.canceled # state.canceled => state' = cancel(state)
          /\ state.canceled => cancel(state') = state']_vars

\* The flag is set, one call has observed it between two chunks after the
\* first bytes were counted, and the parent of that call is still running.
C15_Witness ==
    /\ state.canceled
    /\ <<"a">> \in ObservedCanceled
    /\ call[<<"a">>].pos > 0
    /\ state.bytes > 0
    /\ call[RootPath].pc = "entries"

RECURSIVE SumCallBytes(_)
\* The increments the calls on the paths applied to bytes: each call adds to
\* its own bytes what it passes to add_bytes.
SumCallBytes(paths) ==
    IF paths = {} THEN 0
    ELSE LET path == CHOOSE p \in paths : TRUE
         IN  call[path].bytes + SumCallBytes(paths \ {path})

\* Every increment applied so far is in the counters.
NoIncrementLost ==
    /\ state.bytes = SumCallBytes(ScanPaths)
    /\ state.files = Cardinality({path \in ScanPaths : call[path].exit = "file"})
    /\ state.dirs = Cardinality({path \in ScanPaths : call[path].exit = "dir"})

\* C16: under every interleaving of the workers no step makes bytes, dirs or
\* files smaller, so two successive reads never see a counter decrease, and
\* no increment is lost: at every moment, and so once all workers have
\* finished, each counter is the sum of the increments applied to it.
C16_CountersOnlyGrowAndLoseNothing ==
    /\ []NoIncrementLost
    /\ [][/\ state'.bytes >= state.bytes
          /\ state'.dirs >= state.dirs
          /\ state'.files >= state.files]_vars

\* Two workers hash the files a/x and b at the same time: each has added its
\* first chunk, and a file and a directory are still to be counted.
C16_Witness ==
    /\ call[<<"a", "x">>].pc = "chunk"
    /\ call[<<"b">>].pc = "chunk"
    /\ call[<<"a", "x">>].bytes = BufCapacity
    /\ call[<<"b">>].bytes = BufCapacity
    /\ state.bytes = 2 * BufCapacity
    /\ NoIncrementLost

\* Whether the sequence s is a prefix of the sequence t.
IsPrefix(s, t) == Len(s) <= Len(t) /\ SubSeq(t, 1, Len(s)) = s

\* The wording of the message a call logs before it returns through exit.
WordingOf(exit) ==
    CASE exit = "metadata_err" -> "failed to read metadata of"
      [] exit = "skipped" -> "skipped (neither file/dir):"
      [] exit = "open_err" -> "failed to open"
      [] exit = "read_err" -> "failed to read"

\* The positions of the snapshot that hold the message.
Positions(snapshot, what, path) ==
    {k \in DOMAIN snapshot : snapshot[k] = [what |-> what, path |-> path]}

\* Every message a worker appended is in the snapshot, once for each time it
\* was appended, and the snapshot holds nothing else.
AllMessagesKept ==
    LET snapshot == clone_error_log(state)
        ErrorExits == {"metadata_err", "skipped", "open_err", "read_err"}
    IN  /\ \A path \in ScanPaths :
              /\ call[path].exit \in ErrorExits =>
                    Cardinality(Positions(snapshot, WordingOf(call[path].exit), path)) = 1
              /\ Cardinality(Positions(snapshot, "failed to read dir", path)) =
                    FailedEntries(path)
        /\ \A k \in DOMAIN snapshot :
              \/ snapshot[k].what = "failed to read dir"
              \/ /\ call[snapshot[k].path].exit \in ErrorExits
                 /\ snapshot[k].what = WordingOf(call[snapshot[k].path].exit)

\* last_error_plus against a snapshot taken in the same state.
LastErrorPlusMatchesLog ==
    LET snapshot == clone_error_log(state)
    IN  IF snapshot = <<>> THEN last_error_plus(state) = NoError
        ELSE /\ last_error_plus(state).tag = "Some"
             /\ last_error_plus(state).message = snapshot[Len(snapshot)]
             /\ last_error_plus(state).plus = Len(snapshot) - 1

\* C17: the error log is append-only under concurrent use. A snapshot of
\* clone_error_log is a prefix of the snapshot after any step, so of every
\* later one; a step appends at most one message, which last_error_plus then
\* returns; no appended message is lost or overwritten; last_error_plus
\* returns nothing for the empty log and else the last message with the
\* length minus one.
C17_ErrorLogIsAppendOnly ==
    /\ [](AllMessagesKept /\ LastErrorPlusMatchesLog)
    /\ [][/\ IsPrefix(clone_error_log(state), clone_error_log(state'))
          /\ Len(clone_error_log(state')) <= Len(clone_error_log(state)) + 1
          /\ clone_error_log(state') # clone_error_log(state) =>
                /\ last_error_plus(state').tag = "Some"
                /\ last_error_plus(state').plus = Len(clone_error_log(state))]_vars

\* Three workers have appended a message each (the listing of a, the file
\* a/x, the file b) while the scan of the root still runs.
C17_Witness ==
    /\ Len(clone_error_log(state)) = 3
    /\ last_error_plus(state).tag = "Some"
    /\ last_error_plus(state).plus = 2
    /\ {clone_error_log(state)[k].path : k \in 1 .. 3} = {<<"a">>, <<"a", "x">>, <<"b">>}
    /\ call[RootPath].pc = "entries"

\* ----------------------------------------------- DupSpec: further claims

\* The depth of the shallowest path of a group.
MinDepth(paths) ==
    CHOOSE d \in {Len(path) : path \in paths} :
        \A path \in paths : d <= Len(path)

\* One iteration took the working set from to its successor to: every path of
\* from lost its last component, and to holds nothing else.
ShortenedByOne(from, to) ==
    to = {SubSeq(path, 1, Len(path) - 1) : path \in {p \in from : p # <<>>}}
    /\ \A path \in from : path # <<>>

\* Every iteration of the loop on the group that does not end it shortens
\* every path of the working set by one component; the loop breaks with keep
\* exactly for the groups the filter retains.
ClimbShortens(duplicates, kept, i) ==
    LET sets == WorkingSets(PathSets(duplicates), duplicates[i])
    IN  /\ \A k \in 1 .. Len(sets) - 1 : ShortenedByOne(sets[k], sets[k + 1])
        /\ i \in DOMAIN kept <=> AnyAtRoot(sets[Len(sets)])

\* The number of iterations of the loop on the group.
Iterations(duplicates, i) ==
    Len(WorkingSets(PathSets(duplicates), duplicates[i]))

\* C18 as claimed: for every group of every mapping the loop ends after at
\* most as many iterations as the depth of the shallowest path of the group,
\* each iteration shortening every path of the working set by one component.
C18_ClimbEndsWithinDepth ==
    step = "filtered" =>
        \A i \in DOMAIN unfiltered :
            /\ ClimbShortens(unfiltered, filtered, i)
            /\ Iterations(unfiltered, i) <= MinDepth(unfiltered[i])

\* C18 amended: the loop ends after at most as many iterations as the depth
\* of the shallowest path of the group, and in its first iteration when the
\* group holds the empty path; each iteration that does not end the loop
\* shortens every path of the working set by one component.
C18_ClimbEndsWithinDepthOrAtOnce ==
    step = "filtered" =>
        \A i \in DOMAIN unfiltered :
            /\ ClimbShortens(unfiltered, filtered, i)
            /\ Iterations(unfiltered, i) >= 1
            /\ IF MinDepth(unfiltered[i]) = 0
               THEN Iterations(unfiltered, i) = 1 /\ i \in DOMAIN filtered
               ELSE Iterations(unfiltered, i) <= MinDepth(unfiltered[i])

\* The filter ran on a mapping with a group that climbed for as many
\* iterations as its shallowest path is deep and was kept, and a group that
\* was discarded in its second iteration.
C18_Witness ==
    /\ step = "filtered"
    /\ \E i \in DOMAIN filtered :
          /\ MinDepth(unfiltered[i]) = 2
          /\ Iterations(unfiltered, i) = 2
    /\ \E i \in DOMAIN unfiltered \ DOMAIN filtered :
          /\ MinDepth(unfiltered[i]) = 3
          /\ Iterations(unfiltered, i) = 2

\* The content of a file entry of the input trees: the one whose scan yields it.
ContentOf(entry) ==
    CHOOSE c \in 1 .. NumContents : entry = FileEntry(FileInfoOf(Content(c)))

RECURSIVE Shape(_)
\* What the fingerprint of a node is a function of: the content of a file;
\* for a directory the contents of its children, how often each occurs, with
\* neither names nor order.
Shape(entry) ==
    IF entry.tag = "File" THEN [kind |-> "File", content |-> ContentOf(entry)]
    ELSE LET shapeOf == [n \in DOMAIN entry.entries |-> Shape(entry.entries[n])]
         IN  [kind |-> "Dir",
              children |-> [s \in {shapeOf[n] : n \in DOMAIN shapeOf} |->
                  Cardinality({n \in DOMAIN shapeOf : shapeOf[n] = s})]]

\* The fingerprint function is collision-free on the tree: two nodes have
\* equal fingerprints iff they have equal content.
CollisionFree(entry) ==
    LET nodes == {NodeAt(entry, p) : p \in PathsOf(entry)}
        prints == {<<node.info.hash, Shape(node)>> : node \in nodes}
    IN  \A m \in prints, n \in prints : m[1] = n[1] <=> m[2] = n[2]

\* The paths among paths that are strictly below the path.
Below(paths, path) ==
    {q \in paths : Len(q) > Len(path) /\ SubSeq(q, 1, Len(path)) = path}

\* Every node below the directory one is in a group of the mapping that also
\* holds a node at the same depth below the directory other.
NestsBelow(entry, duplicates, one, other) ==
    LET paths == PathsOf(entry)
    IN  \A p \in Below(paths, one) :
            \E j \in DOMAIN duplicates :
                /\ p \in duplicates[j]
                /\ j = NodeAt(entry, p).info
                /\ \E q \in Below(paths, other) :
                      /\ Len(q) - Len(other) = Len(p) - Len(one)
                      /\ q \in duplicates[j]

\* The groups of directories of a mapping.
DirGroups(duplicates) == {i \in DOMAIN duplicates : i.kind = "Dir"}

\* C19: with a collision-free fingerprint, whenever two directories are in the
\* same group of unfiltered_duplicates, every node below one of them is in
\* some group of the output too, together with a counterpart of it at the
\* same depth below the other directory.
C19_DuplicateDirsNest ==
    (HasUnfiltered /\ HasRoot /\ DirGroups(unfiltered) # {}
     /\ CollisionFree(root)) =>
        \A i \in DirGroups(unfiltered) :
            \A one \in unfiltered[i] :
                \A other \in unfiltered[i] \ {one} :
                    NestsBelow(root, unfiltered, one, other)

\* The drives d1 and d2 are duplicate directories with a directory a and a
\* file a/x below each.
C19_Witness ==
    /\ HasUnfiltered
    /\ HasRoot
    /\ CollisionFree(root)
    /\ \E i \in DOMAIN unfiltered :
          /\ i.kind = "Dir"
          /\ {<<"d1">>, <<"d2">>} \subseteq unfiltered[i]
    /\ <<"d1", "a", "x">> \in PathsOf(root)
    /\ \E j \in DOMAIN unfiltered :
          {<<"d1", "a", "x">>, <<"d2", "a", "x">>} \subseteq unfiltered[j]

\* The proper ancestors of a path that name something: the path shortened by
\* one component or more, the empty path left out.
ProperAncestors(path) == {SubSeq(path, 1, n) : n \in 1 .. Len(path) - 1}

\* The paths of the groups of a mapping.
MemberPaths(duplicates) == UNION {duplicates[i] : i \in DOMAIN duplicates}

\* C20: the filter loses no information about which paths are duplicated.
\* Every path of every group the filter discards has a proper ancestor that
\* is a member of a group the filter retains, also when the group that
\* implied the discarded one was discarded itself.
C20_DiscardedPathsHaveRetainedAncestor ==
    step = "filtered" =>
        \A i \in DOMAIN unfiltered \ DOMAIN filtered :
            \A path \in unfiltered[i] :
                ProperAncestors(path) \cap MemberPaths(filtered) # {}

\* The filter ran on the duplicates of a tree and discarded a chain: the
\* files d1/a/x and d2/a/x are implied by the directories d1/a and d2/a,
\* which are implied by d1 and d2, the only group of the three retained.
C20_Witness ==
    /\ step = "filtered"
    /\ root # NoEntry
    /\ unfiltered = unfiltered_duplicates(root)
    /\ \E i \in DOMAIN unfiltered \ DOMAIN filtered :
          {<<"d1", "a", "x">>, <<"d2", "a", "x">>} \subseteq unfiltered[i]
    /\ \E i \in DOMAIN unfiltered \ DOMAIN filtered :
          {<<"d1", "a">>, <<"d2", "a">>} \subseteq unfiltered[i]
    /\ \E i \in DOMAIN filtered : filtered[i] = {<<"d1">>, <<"d2">>}

\* ------------------------------------------------- Spec: further claims

\* C21: whenever the scan of the root, run with a fresh ScanState of its own,
\* returns a tree, the counters agree with the aggregates of the tree: files
\* is the tree's files and dirs the tree's dirs, also when children were left
\* out after an error or a cancellation, and bytes is at least the tree's bytes.
C21_CountersAgreeWithTree ==
    (call[RootPath].pc = "done" /\ call[RootPath].ret # NoEntry) =>
        /\ state.files = files(call[RootPath].ret)
        /\ state.dirs = dirs(call[RootPath].ret)
        /\ state.bytes >= info(call[RootPath].ret).bytes

\* ----------------------------------------------- DupSpec: idempotence

\* C22: filter_duplicates_by_prefix is idempotent: filtering the mapping it
\* returned once more removes nothing and changes no group.
C22_FilterIsIdempotent ==
    step = "filtered" =>
        filter_duplicates_by_prefix(filtered) = filtered

\* The first pass discarded a group and kept one whose paths are two
\* components deep or more, so the second pass has to climb from it.
C22_Witness ==
    /\ step = "filtered"
    /\ DOMAIN unfiltered \ DOMAIN filtered # {}
    /\ \E i \in DOMAIN filtered :
          /\ MinDepth(filtered[i]) >= 2
          /\ Iterations(filtered, i) >= 2
    /\ filter_duplicates_by_prefix(filtered) = filtered

\* --------------------------------------------- DupSpec: reclaimable bytes

\* The paths of the File nodes of a tree.
FilePaths(entry) ==
    {path \in PathsOf(entry) : NodeAt(entry, path).tag = "File"}

RECURSIVE SumNodeBytes(_, _)
\* The bytes of the nodes of a tree at the paths, summed.
SumNodeBytes(entry, paths) ==
    IF paths = {} THEN 0
    ELSE LET path == CHOOSE p \in paths : TRUE
         IN  NodeAt(entry, path).info.bytes + SumNodeBytes(entry, paths \ {path})

RECURSIVE SumInfoBytes(_)
\* The bytes of a set of EntryInfo values, summed.
SumInfoBytes(infos) ==
    IF infos = {} THEN 0
    ELSE LET i == CHOOSE x \in infos : TRUE
         IN  i.bytes + SumInfoBytes(infos \ {i})

\* The bytes reclaimed by keeping one copy of each distinct file of a tree.
Reclaimable(entry) ==
    SumNodeBytes(entry, FilePaths(entry))
    - SumInfoBytes({NodeAt(entry, path).info : path \in FilePaths(entry)})

\* C23: for every tree, redundant_bytes of its unfiltered duplicates is the
\* sum of the bytes of all its File nodes minus the sum of the bytes of the
\* distinct File EntryInfo values that occur in it.
C23_RedundantBytesIsReclaimable ==
    (HasRedundant /\ HasRoot) =>
        redundant = Reclaimable(root)

\* A tree with a file of one byte or more in three places or more and a file
\* that occurs once: the copies count, the single file does not.
C23_Witness ==
    /\ HasRedundant
    /\ HasRoot
    /\ redundant >= 2
    /\ \E i \in DOMAIN unfiltered :
          i.kind = "File" /\ i.bytes > 0 /\ Cardinality(unfiltered[i]) >= 3
    /\ \E path \in FilePaths(root) :
          NodeAt(root, path).info \notin DOMAIN unfiltered
    /\ \E i \in DOMAIN unfiltered : i.kind = "Dir"

====
